---- MODULE Spec2Model ----
(***************************************************************************)
(* Codeforces-Stats-Analyzer.py: the paged submission fetch                *)
(* (fetch_submissions_in_period), the first-acceptance reducer             *)
(* (collect_first_ac_per_problem) and the Tk form that drives them (CF).   *)
(*                                                                         *)
(* Time.  A datetime is a number of ticks since the epoch, TicksPerSec     *)
(* ticks to the second (Python: 10^6).  A submission's creationTimeSeconds *)
(* is a whole number of seconds.  Python's None is the value None.         *)
(***************************************************************************)
EXTENDS Integers, Sequences, FiniteSets, TLC

None == -1

\* ------------------------------------------------------------------ bounds
MaxTs == 2               \* submissions carry creationTimeSeconds in 0..MaxTs
MaxPageSize == 2         \* page_size ranges over 1..MaxPageSize
MaxRequestsBound == 3    \* max_requests ranges over 0..MaxRequestsBound
MaxHistLen == 3          \* length of the remote listing

\* the resolution of a datetime, scaled down from microseconds
TicksPerSec == 2

Timestamps == 0..MaxTs
Datetimes == 0..(TicksPerSec * (MaxTs + 1) - 1)

\* ------------------------------------------------------------ pure helpers
\* int(dt.timestamp()) for a datetime at or after the epoch
Timestamp(dt) == dt \div TicksPerSec

\* int(s.get("creationTimeSeconds", 0))
CreationTime(s) == s.creationTimeSeconds

\* the scan without the test of line 86
InWindowNoUpper(ts, from_ts, to_ts) == ~(from_ts # None /\ ts < from_ts)

\* lines 84-87: a submission is skipped when it is before from_ts or after to_ts
InWindow(ts, from_ts, to_ts) ==
    /\ ~(from_ts # None /\ ts < from_ts)
    /\ ~(to_ts # None /\ ts > to_ts)

\* lines 80-89: what the scan of one page yields, in page order
YieldedOf(page, from_ts, to_ts) ==
    SelectSeq(page, LAMBDA s : InWindow(CreationTime(s), from_ts, to_ts))

\* lines 79-83: the running minimum of the page's timestamps
RECURSIVE OldestFrom(_, _, _)
OldestFrom(page, i, oldest) ==
    IF i > Len(page) THEN oldest
    ELSE LET ts == CreationTime(page[i])
         IN OldestFrom(page, i + 1,
                       IF oldest = None \/ ts < oldest THEN ts ELSE oldest)

OldestTsInPage(page) == OldestFrom(page, 1, None)

\* the loop without the break of lines 91-94
StopsEarlyNever(oldest_ts_in_page, from_ts) == FALSE

\* line 91: the early stop
StopsEarly(oldest_ts_in_page, from_ts) ==
    oldest_ts_in_page # None /\ from_ts # None /\ oldest_ts_in_page < from_ts

\* the cap tested with > in place of >=
AtCapOffByOne(requests_made, max_requests) == requests_made > max_requests

\* line 66: the request cap
AtCap(requests_made, max_requests) == requests_made >= max_requests

\* an offset that asks again for the last submission of the page
NextStartRepeats(start_idx, page) == start_idx + Len(page) - 1

\* line 96: the offset of the next page
NextStart(start_idx, page) == start_idx + Len(page)

\* line 55: the range check of the generator
InvalidRange(dt_from, dt_to) == dt_from # None /\ dt_to # None /\ dt_from > dt_to

\* ------------------------------------------------- the generator's state
\* The frame of fetch_submissions_in_period: its arguments, its locals, where
\* it stands (pc) and, for the observer, which break ended the loop (stop) and
\* what the last iteration yielded (out).
NewGenerator(dt_from, dt_to, page_size, max_requests) ==
    [dt_from |-> dt_from, dt_to |-> dt_to,
     page_size |-> page_size, max_requests |-> max_requests,
     from_ts |-> None, to_ts |-> None,
     start_idx |-> 0, requests_made |-> 0, yielded |-> 0,
     oldest_ts_in_page |-> None, page |-> <<>>, out |-> <<>>,
     pc |-> "created", stop |-> "none"]

\* lines 55-63: the first next() enters the body
GenEnter(g) ==
    IF InvalidRange(g.dt_from, g.dt_to)
    THEN [g EXCEPT !.pc = "ValueError"]
    ELSE [g EXCEPT !.from_ts = IF g.dt_from # None THEN Timestamp(g.dt_from) ELSE None,
                   !.to_ts = IF g.dt_to # None THEN Timestamp(g.dt_to) ELSE None,
                   !.start_idx = 1, !.requests_made = 0, !.yielded = 0,
                   !.pc = "loop"]

\* lines 66-69 and 98-99: the cap is reached, the generator returns
GenCap(g) == [g EXCEPT !.pc = "returned", !.stop = "max_requests", !.out = <<>>]

\* lines 70-73, api_user_status raising (lines 46-50)
GenRequestFails(g) ==
    [g EXCEPT !.requests_made = g.requests_made + 1, !.out = <<>>,
              !.pc = "FetchError"]

\* lines 70-96: one request that returns `page`, and the scan of it
GenRequest(g, page) ==
    LET made == g.requests_made + 1
        out == YieldedOf(page, g.from_ts, g.to_ts)
        oldest == OldestTsInPage(page)
    IN IF page = <<>>
       THEN [g EXCEPT !.requests_made = made, !.page = page, !.out = <<>>,
                      !.pc = "returned", !.stop = "empty"]
       ELSE IF StopsEarly(oldest, g.from_ts)
       THEN [g EXCEPT !.requests_made = made, !.page = page, !.out = out,
                      !.oldest_ts_in_page = oldest,
                      !.yielded = g.yielded + Len(out),
                      !.pc = "returned", !.stop = "early"]
       ELSE [g EXCEPT !.requests_made = made, !.page = page, !.out = out,
                      !.oldest_ts_in_page = oldest,
                      !.yielded = g.yielded + Len(out),
                      !.start_idx = NextStart(g.start_idx, page)]

Terminated(g) == g.pc \in {"returned", "ValueError", "FetchError"}

\* ------------------------------------------------------------- the state
VARIABLES
    gen,        \* the generator under test
    history,    \* the remote listing, newest first (listing specification)
    emitted,    \* everything the generator has yielded so far (listing specification)
    consumed,   \* the submissions collect_first_ac_per_problem has iterated over
    solved,     \* its local dict `solved`
    collect_pc, \* "loop" while it iterates, "returned" once it has returned `solved`
    fetch_btn,  \* state of the Fetch button
    save_btn,   \* state of the Save CSV button
    solved_map, \* CF.solved_map
    tags_text,  \* lines of the Tags text widget
    solved_text,\* lines of the detail text widget
    stats_var,  \* CF.stats_var
    threads,    \* the fetch threads started and not yet run: thread id -> arguments
    events,     \* callbacks queued with root.after(0, ...), oldest first
    last_event  \* the step taken last: for start_fetch whether an entry held
                \* a malformed date, and the message box the handler showed

fetchVars == <<gen, history, emitted>>
reducerVars == <<consumed, solved, collect_pc>>

guiVars == <<fetch_btn, save_btn, solved_map, tags_text, solved_text, stats_var,
            threads, events, last_event>>
vars == <<fetchVars, reducerVars, guiVars>>

GuiIdle ==
    /\ fetch_btn = "disabled" /\ save_btn = "disabled"
    /\ solved_map = <<>> /\ tags_text = {} /\ solved_text = {}
    /\ stats_var = <<>>
    /\ threads = <<>> /\ events = <<>> /\ last_event = <<>>
ReducerIdle == consumed = <<>> /\ solved = <<>> /\ collect_pc = "idle"
FetchIdle == gen = <<>> /\ history = <<>> /\ emitted = <<>>

\* ------------------------------------------- the fetch, any remote service
RECURSIVE SeqsUpTo(_, _)
SeqsUpTo(S, n) ==
    IF n = 0 THEN {<<>>}
    ELSE LET shorter == SeqsUpTo(S, n - 1)
         IN shorter \cup {Append(q, x) : q \in {r \in shorter : Len(r) = n - 1}, x \in S}

AnySubmissions == [id : {0}, creationTimeSeconds : Timestamps]

\* what user.status can answer to a request for `count` submissions
AnyPages == [count \in 1..MaxPageSize |-> SeqsUpTo(AnySubmissions, count)]

GeneratorArgs ==
    [dt_from : Datetimes \cup {None}, dt_to : Datetimes \cup {None},
     page_size : 1..MaxPageSize, max_requests : 0..MaxRequestsBound]

InitFetch ==
    /\ \E a \in GeneratorArgs :
          gen = NewGenerator(a.dt_from, a.dt_to, a.page_size, a.max_requests)
    /\ history = <<>>
    /\ emitted = <<>>
    /\ ReducerIdle
    /\ GuiIdle

FetchEnter ==
    /\ gen.pc = "created"
    /\ gen' = GenEnter(gen)
    /\ UNCHANGED <<history, emitted, reducerVars, guiVars>>

FetchCapReached ==
    /\ gen.pc = "loop"
    /\ AtCap(gen.requests_made, gen.max_requests)
    /\ gen' = GenCap(gen)
    /\ UNCHANGED <<history, emitted, reducerVars, guiVars>>

FetchRequestFails ==
    /\ gen.pc = "loop"
    /\ ~AtCap(gen.requests_made, gen.max_requests)
    /\ gen' = GenRequestFails(gen)
    /\ UNCHANGED <<history, emitted, reducerVars, guiVars>>

\* the remote service answers with any page of at most page_size submissions
FetchRequest ==
    /\ gen.pc = "loop"
    /\ ~AtCap(gen.requests_made, gen.max_requests)
    /\ \E page \in AnyPages[gen.page_size] :
          gen' = GenRequest(gen, page)
    /\ UNCHANGED <<history, emitted, reducerVars, guiVars>>

NextFetch == FetchEnter \/ FetchCapReached \/ FetchRequestFails \/ FetchRequest

SpecFetch == InitFetch /\ [][NextFetch]_vars

\* the consumer's for loop keeps pulling and every request returns or raises
\* within its timeout (line 43), so the generator always takes its next step
SpecFetchLive == SpecFetch /\ WF_vars(NextFetch)

C5_CapAndTermination ==
    /\ [](/\ gen.requests_made <= gen.max_requests
          /\ (gen.requests_made > 0 /\ gen.page = <<>> /\ gen.pc # "FetchError")
                => gen.pc = "returned")
    /\ <>Terminated(gen)

\* the remote service filled every page with submissions of the window and
\* only the cap ended the fetch
C5_Witness ==
    /\ gen.pc = "returned"
    /\ gen.stop = "max_requests"
    /\ gen.max_requests = MaxRequestsBound
    /\ gen.requests_made = gen.max_requests
    /\ gen.yielded = gen.max_requests * gen.page_size

\* -------------------------------------- the fetch, a fixed remote listing
\* user.status lists a handle's submissions newest first; the submission at
\* position i of the listing gets the id i.
NewestFirst(h) ==
    \A i \in 1..(Len(h) - 1) : h[i].creationTimeSeconds >= h[i + 1].creationTimeSeconds

Listings ==
    {h \in SeqsUpTo([id : 1..MaxHistLen, creationTimeSeconds : Timestamps], MaxHistLen) :
        /\ \A i \in DOMAIN h : h[i].id = i
        /\ NewestFirst(h)}

\* user.status with from = start_idx and count = page_size
ListingPage(h, start_idx, page_size) ==
    IF start_idx > Len(h) THEN <<>>
    ELSE SubSeq(h, start_idx,
                IF start_idx + page_size - 1 < Len(h)
                THEN start_idx + page_size - 1 ELSE Len(h))

InitListing ==
    /\ \E a \in GeneratorArgs :
          gen = NewGenerator(a.dt_from, a.dt_to, a.page_size, a.max_requests)
    /\ history \in Listings
    /\ emitted = <<>>
    /\ ReducerIdle
    /\ GuiIdle

ListingEnter ==
    /\ gen.pc = "created"
    /\ gen' = GenEnter(gen)
    /\ UNCHANGED <<history, emitted, reducerVars, guiVars>>

ListingCapReached ==
    /\ gen.pc = "loop"
    /\ AtCap(gen.requests_made, gen.max_requests)
    /\ gen' = GenCap(gen)
    /\ UNCHANGED <<history, emitted, reducerVars, guiVars>>

ListingRequestFails ==
    /\ gen.pc = "loop"
    /\ ~AtCap(gen.requests_made, gen.max_requests)
    /\ gen' = GenRequestFails(gen)
    /\ UNCHANGED <<history, emitted, reducerVars, guiVars>>

ListingRequest ==
    /\ gen.pc = "loop"
    /\ ~AtCap(gen.requests_made, gen.max_requests)
    /\ gen' = GenRequest(gen, ListingPage(history, gen.start_idx, gen.page_size))
    /\ emitted' = emitted \o gen'.out
    /\ UNCHANGED <<history, reducerVars, guiVars>>

NextListing ==
    ListingEnter \/ ListingCapReached \/ ListingRequestFails \/ ListingRequest

SpecListing == InitListing /\ [][NextListing]_vars

\* C8: over a fixed listing served newest first, when every request succeeded
\* and the fetch ended before the cap, what was yielded is exactly the
\* listing's submissions of the window, each once and in listing order.
C8_Completeness ==
    (gen.pc = "returned" /\ gen.stop # "max_requests")
    => emitted = SelectSeq(history, LAMBDA s :
                    /\ (gen.dt_from # None =>
                          s.creationTimeSeconds >= Timestamp(gen.dt_from))
                    /\ (gen.dt_to # None =>
                          s.creationTimeSeconds <= Timestamp(gen.dt_to)))

\* a fetch of two pages over a listing of three: the first page holds a
\* submission past the window's end and then one of the window, the second
\* page one before the window, which stops the fetch early
C8_Witness ==
    /\ gen.pc = "returned"
    /\ gen.stop = "early"
    /\ gen.requests_made = 2
    /\ gen.page_size < Len(history)
    /\ Len(emitted) = 1
    /\ emitted[1].id = 2
    /\ Len(history) = 3

\* --------------------------------------------- collect_first_ac_per_problem
\* the loop without the verdict test
AcceptedAnyVerdict(s) == TRUE

\* line 104
Accepted(s) == s.verdict = "OK"

\* lines 108-111: f"{contestId}-{index}", else f"nopid-{name}".  contestId is
\* a number, so the two shapes never meet and the pair is read back from the
\* string: a key is modelled by its parts.
ProblemKey(p) ==
    IF p.contestId # None /\ p.index # ""
    THEN [kind |-> "contest", contestId |-> p.contestId, index |-> p.index, name |-> ""]
    ELSE [kind |-> "nopid", contestId |-> None, index |-> "", name |-> p.name]

\* line 113: the tuple stored for a key
SolvedRecord(s) ==
    [ts |-> CreationTime(s), tags |-> s.problem.tags,
     name |-> s.problem.name, rating |-> s.problem.rating]

\* a reducer that keeps the first acceptance it meets
ShouldWriteFirstSeen(map, key, ts) == key \notin DOMAIN map

\* line 112
ShouldWrite(map, key, ts) == key \notin DOMAIN map \/ ts < map[key].ts

\* lines 104-113: one iteration of the loop
CollectStep(map, s) ==
    IF ~Accepted(s) THEN map
    ELSE LET key == ProblemKey(s.problem)
         IN IF ShouldWrite(map, key, CreationTime(s))
            THEN [k \in DOMAIN map \cup {key} |->
                     IF k = key THEN SolvedRecord(s) ELSE map[k]]
            ELSE map

\* lines 102-114: the whole function on a finite stream
RECURSIVE CollectFrom(_, _, _)
CollectFrom(stream, i, map) ==
    IF i > Len(stream) THEN map
    ELSE CollectFrom(stream, i + 1, CollectStep(map, stream[i]))

CollectFirstAcPerProblem(stream) == CollectFrom(stream, 1, <<>>)

MaxStreamLen == 3        \* submissions fed to the reducer
MaxAcTs == 1             \* their creationTimeSeconds range over 0..MaxAcTs

\* Two descriptions of problem 1-A that differ in tags and rating, and one
\* problem without a contest id.
Problems ==
    { [contestId |-> 1, index |-> "A", name |-> "x", tags |-> <<"dp">>, rating |-> 800],
      [contestId |-> 1, index |-> "A", name |-> "x", tags |-> <<"dp", "greedy">>, rating |-> None],
      [contestId |-> None, index |-> "A", name |-> "x", tags |-> <<>>, rating |-> None] }

Verdicts == {"OK", "WRONG_ANSWER"}

ReducerSubmissions ==
    [creationTimeSeconds : 0..MaxAcTs, verdict : Verdicts, problem : Problems]

InitReducer ==
    /\ consumed = <<>>
    /\ solved = <<>>
    /\ collect_pc = "loop"
    /\ FetchIdle
    /\ GuiIdle

\* the iterator hands over its next submission
Consume ==
    /\ collect_pc = "loop"
    /\ Len(consumed) < MaxStreamLen
    /\ \E s \in ReducerSubmissions :
          /\ consumed' = Append(consumed, s)
          /\ solved' = CollectStep(solved, s)
    /\ UNCHANGED <<collect_pc, fetchVars, guiVars>>

\* the iterator is exhausted: line 114
CollectReturn ==
    /\ collect_pc = "loop"
    /\ collect_pc' = "returned"
    /\ UNCHANGED <<consumed, solved, fetchVars, guiVars>>

NextReducer == Consume \/ CollectReturn

SpecReducer == InitReducer /\ [][NextReducer]_vars

Permuted(stream, f) == [i \in DOMAIN stream |-> stream[f[i]]]

PermutationsOf(stream) ==
    {Permuted(stream, f) :
        f \in {g \in [DOMAIN stream -> DOMAIN stream] :
                 \A i, j \in DOMAIN stream : g[i] = g[j] => i = j}}

AcceptedOf(stream, key) ==
    {i \in DOMAIN stream :
        stream[i].verdict = "OK" /\ ProblemKey(stream[i].problem) = key}

FirstAcTime(stream, key) ==
    CHOOSE t \in {stream[i].creationTimeSeconds : i \in AcceptedOf(stream, key)} :
        \A i \in AcceptedOf(stream, key) : t <= stream[i].creationTimeSeconds

\* two accepted submissions of one key share the key's earliest timestamp and
\* disagree on tags, name or rating
TiedFirstAc(stream) ==
    \E i, j \in DOMAIN stream :
        /\ stream[i].verdict = "OK" /\ stream[j].verdict = "OK"
        /\ ProblemKey(stream[i].problem) = ProblemKey(stream[j].problem)
        /\ stream[i].creationTimeSeconds = stream[j].creationTimeSeconds
        /\ stream[i].creationTimeSeconds =
              FirstAcTime(stream, ProblemKey(stream[i].problem))
        /\ stream[i].problem # stream[j].problem

\* C3 as stated: the returned mapping is the same for every permutation of the
\* stream, ties on the earliest timestamp with different tags, name or rating
\* included.
C3_PermutationInvariant ==
    collect_pc = "returned"
    => \A p \in PermutationsOf(consumed) : CollectFirstAcPerProblem(p) = solved

\* C3 amended: for every permutation of the stream the returned mapping has the
\* same keys and the same timestamps, and the same tags, name and rating too
\* unless two accepted submissions of one key tie on its earliest timestamp
\* with different tags, name or rating.
C3_PermutationInvariantUpToTies ==
    collect_pc = "returned"
    => \A p \in PermutationsOf(consumed) :
          LET other == CollectFirstAcPerProblem(p)
          IN /\ DOMAIN other = DOMAIN solved
             /\ \A k \in DOMAIN solved : other[k].ts = solved[k].ts
             /\ ~TiedFirstAc(consumed) => other = solved

\* a later, then an earlier acceptance of 1-A and an acceptance elsewhere
C3_Witness ==
    /\ collect_pc = "returned"
    /\ Len(consumed) = 3
    /\ Cardinality(DOMAIN solved) = 2
    /\ ~TiedFirstAc(consumed)
    /\ consumed[1].verdict = "OK" /\ consumed[2].verdict = "OK"
    /\ ProblemKey(consumed[1].problem) = ProblemKey(consumed[2].problem)
    /\ consumed[2].creationTimeSeconds < consumed[1].creationTimeSeconds
    /\ consumed[1].problem # consumed[2].problem

C4_Holds(stream, map) ==
    /\ \A p \in Problems :
          LET k == ProblemKey(p)
          IN k \in DOMAIN map <=> AcceptedOf(stream, k) # {}
    /\ \A k \in DOMAIN map : map[k].ts = FirstAcTime(stream, k)

\* C4: after every iteration the mapping holds a key exactly when an accepted
\* submission of that key has been consumed, with the least timestamp of those
\* as its timestamp, and an iteration over a submission of another verdict
\* leaves the mapping as it was.
C4_EarliestAccepted ==
    [][/\ C4_Holds(consumed', solved')
       /\ (Len(consumed') > Len(consumed)
           /\ consumed'[Len(consumed')].verdict # "OK") => solved' = solved]_vars

\* an accepted submission, an earlier one of the same key, then a rejected one
\* earlier still
C4_Witness ==
    /\ Len(consumed) = 3
    /\ consumed[1].verdict = "OK" /\ consumed[2].verdict = "OK"
    /\ consumed[3].verdict # "OK"
    /\ ProblemKey(consumed[1].problem) = ProblemKey(consumed[2].problem)
    /\ ProblemKey(consumed[3].problem) # ProblemKey(consumed[1].problem)
    /\ consumed[1].creationTimeSeconds = 1
    /\ consumed[2].creationTimeSeconds = 0
    /\ consumed[3].creationTimeSeconds = 0
    /\ Cardinality(DOMAIN solved) = 1

\* ------------------------------------------------------------- the Tk form
\* The status line (set_status, the progress callback) only displays text that
\* no operation reads back; it is left out.  A text widget is the set of its
\* lines.  set_last_30 and typing only change what the entries hold, and
\* start_fetch reads the entries as its inputs.

\* The form's constants, scaled down: the day of 86400 seconds, the default
\* window of 30 days (line 224), and the page_size = 1000 and
\* max_requests = 200 that _fetch_thread passes (line 241).
DaySecs == 2
DefaultDays == 1
GuiPageSize == 1
GuiMaxRequests == 2
MaxDay == 1              \* date strings name the days 0..MaxDay
MaxThreads == 2          \* fetch threads that can be in flight together

DayTicks == DaySecs * TicksPerSec

\* ---- normalize_handle, on strings as sequences of characters
RECURSIVE StripLeft(_)
StripLeft(s) == IF s # <<>> /\ Head(s) = " " THEN StripLeft(Tail(s)) ELSE s

RECURSIVE StripRight(_)
StripRight(s) ==
    IF s # <<>> /\ s[Len(s)] = " " THEN StripRight(SubSeq(s, 1, Len(s) - 1)) ELSE s

Strip(s) == StripRight(StripLeft(s))

NormalizeHandle(raw) ==
    LET h == Strip(raw)
    IN IF h = <<>> THEN <<>>
       ELSE IF Head(h) = "<" /\ h[Len(h)] = ">"
       THEN Strip(SubSeq(h, 2, Len(h) - 1))
       ELSE h

\* ---- parse_date_maybe.  What an entry holds is one of: nothing but blanks
\* ("empty"), a ten-character calendar date YYYY-MM-DD of day `at` ("date"),
\* another ISO date-time that denotes the UTC tick `at` ("iso"), or a string
\* that neither strptime nor fromisoformat accepts ("bad").
ParseError == -2

\* a parser that takes a malformed string for an absent date
ParseDateMaybeLenient(s) ==
    CASE s.kind = "empty" -> None
      [] s.kind = "date" -> s.at * DayTicks
      [] s.kind = "iso" -> s.at
      [] s.kind = "bad" -> None

\* lines 21-38; ParseError stands for the ValueError of line 38
ParseDateMaybe(s) ==
    CASE s.kind = "empty" -> None
      [] s.kind = "date" -> s.at * DayTicks
      [] s.kind = "iso" -> s.at
      [] s.kind = "bad" -> ParseError

\* line 226: hour, minute and second are 0 and the entry holds ten characters
WidenTo(dt_to, to_s) ==
    (dt_to % DayTicks) \div TicksPerSec = 0 /\ to_s.kind = "date"

\* line 227: replace(hour=23, minute=59, second=59)
EndOfDay(dt) ==
    dt - (dt % DayTicks) + (DaySecs - 1) * TicksPerSec + (dt % TicksPerSec)

\* ---- lines 244-262 and 272-284: the tag lines
Range(q) == {q[i] : i \in DOMAIN q}

MinOf(S) == CHOOSE x \in S : \A y \in S : x <= y
MaxOf(S) == CHOOSE x \in S : \A y \in S : x >= y

RECURSIVE TagCount(_, _, _)
TagCount(keys, map, tag) ==
    IF keys = {} THEN 0
    ELSE LET k == CHOOSE x \in keys : TRUE
         IN Cardinality({i \in DOMAIN map[k].tags : map[k].tags[i] = tag})
            + TagCount(keys \ {k}, map, tag)

TagRatings(map, tag) ==
    {map[k].rating : k \in {x \in DOMAIN map :
                              tag \in Range(map[x].tags) /\ map[x].rating # None}}

TagLines(map) ==
    LET tags == UNION {Range(map[k].tags) : k \in DOMAIN map}
    IN IF tags = {}
       THEN {[tag |-> "(none)", counter |-> 0, min |-> None, max |-> None]}
       ELSE {[tag |-> tag, counter |-> TagCount(DOMAIN map, map, tag),
              min |-> IF TagRatings(map, tag) = {} THEN None
                      ELSE MinOf(TagRatings(map, tag)),
              max |-> IF TagRatings(map, tag) = {} THEN None
                      ELSE MaxOf(TagRatings(map, tag))] : tag \in tags}

\* friendly_md: the UTC calendar day of a timestamp
FriendlyMd(ts) == ts \div DaySecs

\* lines 293-298: the detail lines
DetailLines(map) ==
    {[key |-> k, md |-> FriendlyMd(map[k].ts), rating |-> map[k].rating,
      tags |-> map[k].tags] : k \in DOMAIN map}

\* lines 325-331: the rating summary
StatsDisplay(map) ==
    LET rated == {k \in DOMAIN map : map[k].rating # None}
        ratings == {map[k].rating : k \in rated}
    IN IF rated = {}
       THEN [text |-> "No problems with ratings", n |-> 0, min |-> None, max |-> None]
       ELSE [text |-> "Problems solved have Rating", n |-> Cardinality(rated),
             min |-> MinOf(ratings), max |-> MaxOf(ratings)]

\* ---- what the user and the remote service can supply
RawHandles == { <<" ">>, <<"<", "h", ">">>, <<"<", " ", ">">> }

EntryStrings ==
    {[kind |-> "empty", at |-> 0], [kind |-> "bad", at |-> 0]}
    \cup {[kind |-> "date", at |-> d] : d \in 0..MaxDay}
    \cup {[kind |-> "iso", at |-> DayTicks * MaxDay]}

\* datetime.now(timezone.utc) when start_fetch runs
Nows == {DayTicks * MaxDay + 1}

GuiSubmissions ==
    [creationTimeSeconds : {d * DaySecs : d \in 0..MaxDay}, verdict : Verdicts,
     problem : {p \in Problems : p.rating # None}]

\* user.status answers with at most page_size submissions
GuiPages == SeqsUpTo(GuiSubmissions, GuiPageSize)

NoEvent == [op |-> "other", dates_malformed |-> FALSE, dialog |-> "none"]

InitGui ==
    /\ fetch_btn = "normal"
    /\ save_btn = "disabled"
    /\ solved_map = <<>>
    /\ tags_text = {}
    /\ solved_text = {}
    /\ stats_var = [text |-> "No data.", n |-> 0, min |-> None, max |-> None]
    /\ threads = <<>>
    /\ events = <<>>
    /\ last_event = NoEvent
    /\ FetchIdle
    /\ ReducerIdle

\* A fetch is in flight from the start of its thread until its finish or
\* _on_error callback has run.
InFlight == DOMAIN threads \cup {events[i].tid : i \in DOMAIN events}

\* ---- start_fetch, lines 204-235 (with clear_output, lines 378-386)
\* lines 208-212: no handle
StartWithoutHandle ==
    /\ last_event' = [op |-> "start_fetch", dates_malformed |-> FALSE,
                      dialog |-> "No handle"]
    /\ UNCHANGED <<fetch_btn, save_btn, solved_map, tags_text, solved_text,
                   stats_var, threads, events>>

\* lines 214-227: the window the entries resolve to, or the date parse error
ResolveWindow(from_s, to_s, now) ==
    LET parsed_from == ParseDateMaybe(from_s)
        parsed_to == ParseDateMaybe(to_s)
        dt_to == IF parsed_to = None THEN now ELSE parsed_to
        dt_from == IF parsed_from = None THEN now - DefaultDays * DayTicks
                   ELSE parsed_from
    IN IF parsed_from = ParseError \/ parsed_to = ParseError
       THEN [parse_error |-> TRUE, dt_from |-> None, dt_to |-> None]
       ELSE [parse_error |-> FALSE, dt_from |-> dt_from,
             dt_to |-> IF WidenTo(dt_to, to_s) THEN EndOfDay(dt_to) ELSE dt_to]

\* lines 214-235
StartWithHandle(handle, malformed, window) ==
    LET free == (1..MaxThreads) \ InFlight
        tid == CHOOSE t \in free : \A u \in free : t <= u
    IN IF window.parse_error
       THEN /\ last_event' = [op |-> "start_fetch", dates_malformed |-> malformed,
                              dialog |-> "Date parse error"]
            /\ UNCHANGED <<fetch_btn, save_btn, solved_map, tags_text, solved_text,
                           stats_var, threads, events>>
       ELSE /\ free # {}
            /\ last_event' = [op |-> "start_fetch", dates_malformed |-> malformed,
                              dialog |-> "none"]
            /\ fetch_btn' = "disabled"
            /\ save_btn' = "disabled"
            /\ tags_text' = {}
            /\ solved_text' = {}
            /\ solved_map' = <<>>
            /\ threads' = [t \in DOMAIN threads \cup {tid} |->
                  IF t = tid
                  THEN [handle |-> handle, dt_from |-> window.dt_from,
                        dt_to |-> window.dt_to]
                  ELSE threads[t]]
            /\ UNCHANGED <<stats_var, events>>

\* what the entries can hold when start_fetch reads them: whether a date is
\* malformed, and what the two dates resolve to
Entries ==
    {[malformed |-> (from_s.kind = "bad" \/ to_s.kind = "bad"),
      window |-> ResolveWindow(from_s, to_s, now)] :
        from_s \in EntryStrings, to_s \in EntryStrings, now \in Nows}

StartFetch ==
    \E raw \in RawHandles :
        IF NormalizeHandle(raw) = <<>>
        THEN StartWithoutHandle
        ELSE \E e \in Entries :
                StartWithHandle(NormalizeHandle(raw), e.malformed, e.window)

\* line 152: the Fetch button, which a disabled button does not run
ClickFetch ==
    /\ fetch_btn = "normal"
    /\ StartFetch
    /\ UNCHANGED <<fetchVars, reducerVars>>

\* line 140: the Return key in the handle entry
PressReturn ==
    /\ StartFetch
    /\ UNCHANGED <<fetchVars, reducerVars>>

\* lines 378-386: the Clear button
ClearOutput ==
    /\ tags_text' = {}
    /\ solved_text' = {}
    /\ solved_map' = <<>>
    /\ save_btn' = "disabled"
    /\ last_event' = NoEvent
    /\ UNCHANGED <<fetch_btn, stats_var, threads, events>>
    /\ UNCHANGED <<fetchVars, reducerVars>>

\* ---- _fetch_thread, lines 237-347.  Up to root.after the thread works on
\* its own frame only (the generator, collect's dict, the tag statistics), so
\* its run is one step: the generator runs inside collect_first_ac_per_problem
\* against whatever the remote service answers, and then the thread queues
\* finish, a closure over the map, or _on_error with the exception, and ends.
\* `requests` is the number of requests the run has issued.
RECURSIVE Runs(_, _)
Runs(g, map) ==
    IF Terminated(g) THEN {[gen |-> g, map |-> map]}
    ELSE IF g.pc = "created" THEN Runs(GenEnter(g), map)
    ELSE IF AtCap(g.requests_made, g.max_requests) THEN Runs(GenCap(g), map)
    ELSE Runs(GenRequestFails(g), map)
         \cup UNION {LET next == GenRequest(g, page)
                     IN Runs(next, CollectFrom(next.out, 1, map)) : page \in GuiPages}

\* what a run leaves behind for the callback it queues
Outcome(run) ==
    IF run.gen.pc = "returned"
    THEN [kind |-> "finish", map |-> run.map, exc |-> "none",
          requests |-> run.gen.requests_made]
    ELSE [kind |-> "_on_error", map |-> <<>>, exc |-> run.gen.pc,
          requests |-> run.gen.requests_made]

GuiDatetimes == 0..(DayTicks * (MaxDay + 1) - 1)

\* the outcomes of _fetch_thread(handle, dt_from, dt_to), over every behaviour
\* of the remote service
Outcomes ==
    [dt_from \in GuiDatetimes, dt_to \in GuiDatetimes |->
        {Outcome(run) :
            run \in Runs(NewGenerator(dt_from, dt_to, GuiPageSize, GuiMaxRequests),
                         <<>>)}]

Forget(t) == [u \in DOMAIN threads \ {t} |-> threads[u]]

FetchThread ==
    \E t \in DOMAIN threads :
        /\ \E o \in Outcomes[threads[t].dt_from, threads[t].dt_to] :
              events' = Append(events, [kind |-> o.kind, tid |-> t, map |-> o.map,
                                        exc |-> o.exc, requests |-> o.requests])
        /\ threads' = Forget(t)
        /\ last_event' = NoEvent
        /\ UNCHANGED <<fetch_btn, save_btn, solved_map, tags_text, solved_text,
                       stats_var>>
        /\ UNCHANGED <<fetchVars, reducerVars>>

\* ---- the event loop runs the oldest queued callback
\* finish, lines 316-338
Finish ==
    /\ events # <<>>
    /\ Head(events).kind = "finish"
    /\ LET map == Head(events).map
       IN /\ tags_text' = TagLines(map)
          /\ solved_text' = DetailLines(map)
          /\ stats_var' = StatsDisplay(map)
          /\ solved_map' = map
          /\ fetch_btn' = "normal"
          /\ save_btn' = IF map # <<>> THEN "normal" ELSE save_btn
    /\ events' = Tail(events)
    /\ last_event' = NoEvent
    /\ UNCHANGED threads
    /\ UNCHANGED <<fetchVars, reducerVars>>

\* _on_error, lines 349-353
OnError ==
    /\ events # <<>>
    /\ Head(events).kind = "_on_error"
    /\ fetch_btn' = "normal"
    /\ save_btn' = "disabled"
    /\ events' = Tail(events)
    /\ last_event' = [op |-> "_on_error", dates_malformed |-> FALSE,
                      dialog |-> "Error"]
    /\ UNCHANGED <<solved_map, tags_text, solved_text, stats_var, threads>>
    /\ UNCHANGED <<fetchVars, reducerVars>>

NextGui ==
    \/ ClickFetch \/ PressReturn \/ ClearOutput
    \/ FetchThread
    \/ Finish \/ OnError

SpecGui == InitGui /\ [][NextGui]_vars

\* C6: when the _on_error callback of a fetch whose page request failed has
\* run, nothing has been published: the stored solved map and the tag output
\* are empty, Save CSV is disabled, and Fetch is enabled again.
C6_FailFastAllOrNothing ==
    [][(/\ events # <<>>
        /\ Head(events).kind = "_on_error"
        /\ Head(events).exc = "FetchError"
        /\ events' = Tail(events))
       => (/\ solved_map' = <<>>
           /\ tags_text' = {}
           /\ save_btn' = "disabled"
           /\ fetch_btn' = "normal")]_vars

\* C7: a start_fetch that reads a malformed date shows the date parse error
\* and starts no thread and queues nothing; and a thread started with
\* from > to ends in _on_error with the ValueError of the range check, having
\* issued no request.
C7_ValidationBeforeNetwork ==
    [][/\ (last_event'.op = "start_fetch" /\ last_event'.dates_malformed)
          => (/\ last_event'.dialog = "Date parse error"
              /\ threads' = threads
              /\ events' = events)
       /\ \A t \in DOMAIN threads :
             (threads[t].dt_from > threads[t].dt_to /\ t \notin DOMAIN threads')
             => (/\ Len(events') = Len(events) + 1
                 /\ events'[Len(events')].tid = t
                 /\ events'[Len(events')].kind = "_on_error"
                 /\ events'[Len(events')].exc = "ValueError"
                 /\ events'[Len(events')].requests = 0)]_vars

\* the range check has stopped one fetch, and the Return key has then started
\* another from a malformed date
C7_Witness ==
    /\ last_event.op = "start_fetch"
    /\ last_event.dates_malformed
    /\ last_event.dialog = "Date parse error"
    /\ Len(events) = 1
    /\ events[1].exc = "ValueError"
    /\ threads = <<>>

\* C9: at most one fetch is in flight.
C9_OneFetchInFlight == Cardinality(InFlight) <= 1

\* C10: Save CSV is enabled only if the stored solved map is not empty.
C10_SaveOnlyWithData == save_btn = "normal" => solved_map # <<>>

====
